---- MODULE Spec2Model ----
(***************************************************************************)
(* Model of the trading terminal client, static/js/index.js:               *)
(* the Store (state container), the UIController's render pass and         *)
(* game-over sequence, and the pollState synchronization loop.             *)
(* Of the DOM, ui keeps the order book rows and the spread, the chat list   *)
(* with its scroll position, the news feed, the status text and the        *)
(* game-over modal; prices are whole dollars and a text made by           *)
(* toFixed(2) is kept as its number of hundredths.                         *)
(*                                                                         *)
(* JavaScript values that may be `undefined` (the array/object fields of   *)
(* a server payload) are carried as optional values: Def(v) or Undefined.  *)
(* Time is kept as countdowns of the pending timers, in milliseconds.      *)
(***************************************************************************)
EXTENDS Integers, Sequences, FiniteSets, TLC

VARIABLES
    state,      \* Store.state: the current snapshot
    listeners,  \* Store.listeners, in registration order
    delivered,  \* the notifications made by the most recent step, in order
    lastCall,   \* the operation the most recent step performed
    ui,         \* the DOM state written by UIController
    audio,      \* AudioEngine: its flag, its pending timeouts, the bursts just started
    cues,       \* the cue methods invoked on the audio engine by the most recent step
    timers,     \* pending timers: the poll interval and the overlay timeouts
    inflight,   \* room-state requests issued and not yet answered
    navigated,  \* window.location.href was assigned: the page is gone
    out,        \* the requests sent and the toasts shown by the most recent step
    pending,    \* trade and chat requests issued and not yet answered
    kept,       \* what a subscriber that keeps the objects it is given holds
    server,     \* the room on the server: its price history and the room-state requests it holds
    task        \* the calls of Store.setState that have begun and not returned

vars == <<state, listeners, delivered, lastCall, ui, audio, cues, timers, inflight, navigated,
          out, pending, kept, server, task>>

----------------------------------------------------------------------------
(* Bounds of the model *)

MaxPrice == 2         \* prices range over 1..MaxPrice
MaxSubscribers == 3   \* length of Store.listeners
MaxInflight == 2      \* room-state requests in flight at once
MaxGameOvers == 2     \* game-over sequences started in one session
MaxPending == 2       \* trade and chat requests in flight at once
MaxDelayed == 2       \* second bursts of cues waiting for their timeout
MaxHistory == 2       \* rounds the server plays

(* Program constants *)

POLL_INTERVAL == 1000
OVERLAY_DELAY == 1500
MAX_ROUNDS == 10
OB_ROWS == 8

TimeStep == POLL_INTERVAL \div 2

PriceVals == 1..MaxPrice
CashVals == {0, 1}
ShareVals == {0, 1}
WorthVals == {0, MaxPrice + 2}    \* the second is the net worth of no snapshot

Probes == {"p1", "p2"}

----------------------------------------------------------------------------
(* Optional JavaScript values *)

Undefined == [def |-> FALSE]
Def(v) == [def |-> TRUE, v |-> v]

Min(S) == CHOOSE x \in S : \A y \in S : x <= y
Max(S) == CHOOSE x \in S : \A y \in S : x >= y

----------------------------------------------------------------------------
(* Store *)

StoreConstructor(p0, c0, s0) ==
    [ price |-> p0, lastPrice |-> p0, cash |-> c0, shares |-> s0,
      netWorth |-> c0 + (s0 * p0),
      round |-> 0, maxRounds |-> MAX_ROUNDS, isActive |-> TRUE, crashed |-> FALSE,
      history |-> Def(<<>>), chat |-> Def(<<>>), news |-> Def(<<>>),
      orderBook |-> Def([asks |-> <<>>, bids |-> <<>>]),
      leaderboard |-> Def(<<>>) ]

\* newState.k !== undefined, for the numeric fields (a numeric field that is
\* present in a partial carries a number)
Has(newState, k) == k \in DOMAIN newState

\* variant: lastPrice is captured on every call
captureLastPriceAlways(st, newState) == [st EXCEPT !.lastPrice = st.price]

\* if (newState.price !== undefined) this.state.lastPrice = this.state.price
captureLastPrice(st, newState) ==
    IF Has(newState, "price") THEN [st EXCEPT !.lastPrice = st.price] ELSE st

\* variant: the spreads in the other order, the fields of the old state win
mergeStateLast(st, newState) == st

\* { ...this.state, ...newState }
merge(st, newState) ==
    [f \in DOMAIN st |-> IF f \in DOMAIN newState THEN newState[f] ELSE st[f]]

\* the recalculation of netWorth
deriveNetWorth(st, newState) ==
    IF Has(newState, "cash") \/ Has(newState, "shares") \/ Has(newState, "price")
    THEN [st EXCEPT !.netWorth = st.cash + (st.shares * st.price)]
    ELSE st

\* the snapshot Store.setState leaves in this.state
setState(st, newState) ==
    deriveNetWorth(merge(captureLastPrice(st, newState), newState), newState)

\* A subscriber may keep the object it is given ("keeper"). has: the object
\* it was given last is the one in Store.state; prior: the object it was
\* given before that one, as it was when given and as it is now.
KeptConstructor == [has |-> FALSE, prior |-> Undefined]

\* the objects of the keeper after a setState call: the assignment to
\* this.state.lastPrice writes into the outgoing object, the spread makes the
\* new one
keep(k, st, newState, calls) ==
    [ has |-> \E i \in 1..Len(calls) : calls[i].listener = "keeper",
      prior |-> IF k.has
                THEN Def([asGiven |-> st, now |-> captureLastPrice(st, newState)])
                ELSE k.prior ]

\* nothing sent, nothing shown
NoOut == [sent |-> <<>>, toasts |-> <<>>]

----------------------------------------------------------------------------
(* UIController: the render pass *)

UIConstructor ==
    [ obAsks |-> <<>>,         \* the rows of #ob-asks
      obBids |-> <<>>,         \* the rows of #ob-bids
      spread |-> Undefined,    \* the numbers in #spread-display, if any
      chatMsgs |-> <<>>,       \* the children of #chat-messages
      chatScroll |-> "initial", \* #chat-messages.scrollTop
      newsFeed |-> <<>>,       \* the items of #news-feed
      statusText |-> "",       \* #status-text
      modalActive |-> FALSE,   \* gameOverModal.classList.contains('active')
      goTitle |-> "",          \* #go-title
      goScore |-> 0,           \* #go-score
      goTones |-> 0,           \* tones started by triggerGameOver
      goScheduled |-> 0 ]      \* overlay activations scheduled by triggerGameOver

AudioConstructor ==
    [ enabled |-> TRUE,    \* this.enabled
      delayed |-> <<>>,    \* the second bursts set with setTimeout and not yet run
      started |-> 0 ]      \* oscillators started by the most recent step

\* variant: the guard is missing
gameOverNeverShown(u) == FALSE

\* the guard of triggerGameOver: modal.classList.contains('active')
gameOverShown(u) == u.modalActive

\* triggerGameOver(title, score): the DOM writes, the tone and the timeout
triggerGameOver(u, au, title, score) ==
    IF gameOverShown(u)
    THEN [ui |-> u, cues |-> <<>>, timeouts |-> <<>>]
    ELSE [ui |-> [u EXCEPT
                    !.goTitle = IF title = "CRASHED" THEN "MARKET COLLAPSE" ELSE "SESSION CLOSED",
                    !.goScore = score,
                    !.goTones = IF au.enabled THEN @ + 1 ELSE @,
                    !.goScheduled = @ + 1],
          cues |-> <<IF title = "CRASHED" THEN "crash" ELSE "alert">>,
          timeouts |-> <<OVERLAY_DELAY>>]

\* the price-delta step of render: playTick is invoked on a rise and on a fall
tickCues(s) ==
    IF s.price > s.lastPrice \/ s.price < s.lastPrice THEN <<"tick">> ELSE <<>>

\* x.toFixed(2) for x = num / den with den > 0, as hundredths: the nearest
\* one, the larger of two that are equally near
toFixed2(num, den) == ((200 * num) + den) \div (2 * den)

\* array.slice(-n) and array.slice(0, n)
sliceLast(sq, n) == IF Len(sq) <= n THEN sq ELSE SubSeq(sq, Len(sq) - n + 1, Len(sq))
sliceFirst(sq, n) == IF Len(sq) <= n THEN sq ELSE SubSeq(sq, 1, n)

\* renderOrderBook(book); book.asks is an array in every book of the model,
\* so the return at its top is not taken
renderOrderBook(book, u) ==
    LET rows == [u EXCEPT !.obAsks = sliceLast(book.asks, OB_ROWS),
                          !.obBids = sliceFirst(book.bids, OB_ROWS)]
    IN IF Len(book.asks) # 0 /\ Len(book.bids) # 0
       THEN LET spread == book.asks[Len(book.asks)].price - book.bids[1].price
            IN [rows EXCEPT !.spread =
                   Def([ spread |-> toFixed2(spread, 1),
                         pct |-> toFixed2(spread * 100, book.bids[1].price) ])]
       ELSE rows

\* variant: the list is written again whenever its content differs
renderChatOnContentChange(messages, u) ==
    IF messages = u.chatMsgs THEN u
    ELSE [u EXCEPT !.chatMsgs = messages,
                   !.chatScroll = "bottom",
                   !.newsFeed = SelectSeq(messages, LAMBDA m : m.is_system)]

\* renderChat(messages); the messages are text without markup, so each makes
\* one child element
renderChat(messages, u) ==
    IF Len(messages) = Len(u.chatMsgs) THEN u
    ELSE [u EXCEPT !.chatMsgs = messages,
                   !.chatScroll = "bottom",
                   !.newsFeed = SelectSeq(messages, LAMBDA m : m.is_system)]

\* the step of render that throws a TypeError on the snapshot, "none" if none does
renderThrowsAt(s) ==
    IF ~s.history.def THEN "chart"                \* state.history.length
    ELSE IF ~s.orderBook.def THEN "orderBook"     \* book.asks
    ELSE IF ~s.chat.def THEN "chat"               \* messages.length
    ELSE IF ~s.leaderboard.def THEN "leaderboard" \* lb.map
    ELSE "none"

\* variant: a room that is not active counts as completed in any round
renderGameStateNoRoundTest(s, u, au) ==
    IF s.crashed
    THEN triggerGameOver([u EXCEPT !.statusText = "CRASHED"], au, "CRASHED", s.netWorth)
    ELSE IF ~s.isActive
    THEN triggerGameOver([u EXCEPT !.statusText = "COMPLETED"], au, "COMPLETED", s.netWorth)
    ELSE [ui |-> [u EXCEPT !.statusText = "LIVE"], cues |-> <<>>, timeouts |-> <<>>]

\* step 6 of render: the status text, and the game-over sequence of a
\* crashed or completed room
renderGameState(s, u, au) ==
    IF s.crashed
    THEN triggerGameOver([u EXCEPT !.statusText = "CRASHED"], au, "CRASHED", s.netWorth)
    ELSE IF ~s.isActive /\ s.round >= s.maxRounds
    THEN triggerGameOver([u EXCEPT !.statusText = "COMPLETED"], au, "COMPLETED", s.netWorth)
    ELSE [ui |-> [u EXCEPT !.statusText = "LIVE"], cues |-> <<>>, timeouts |-> <<>>]

\* UIController.render(state): what it has done when it returns or throws
render(s, u, au) ==
    LET at == renderThrowsAt(s)
        u3 == IF at \in {"chart", "orderBook"} THEN u ELSE renderOrderBook(s.orderBook.v, u)
        u4 == IF at \in {"chart", "orderBook", "chat"} THEN u3 ELSE renderChat(s.chat.v, u3)
        g == renderGameState(s, u4, au)
    IN IF at \in {"chart", "orderBook", "chat"}
       THEN [ui |-> u4, cues |-> tickCues(s), timeouts |-> <<>>, threw |-> TRUE]
       ELSE [ui |-> g.ui, cues |-> tickCues(s) \o g.cues, timeouts |-> g.timeouts,
             threw |-> (at = "leaderboard")]

\* whether a listener throws on the snapshot (the probes only record)
listenerThrows(l, s) == l = "render" /\ renderThrowsAt(s) # "none"

\* variant: the listeners are called last to first
notifyReversed(ls, s) ==
    [i \in 1..Len(ls) |-> [listener |-> ls[Len(ls) + 1 - i], snapshot |-> s]]

\* Store.notify: listeners.forEach(fn => fn(this.state)); an exception ends the loop
notify(ls, s) ==
    LET throwers == {i \in 1..Len(ls) : listenerThrows(ls[i], s)}
        last == IF throwers = {} THEN Len(ls) ELSE Min(throwers)
    IN [i \in 1..last |-> [listener |-> ls[i], snapshot |-> s]]

----------------------------------------------------------------------------
(* State after the bootstrap script has run *)

\* the server when the page has loaded: no round played, and the request of
\* the first pollState() (index.js:583) on its way. history: the price
\* history of the room; waiting: the room-state requests not yet handled;
\* answers: the answers on their way to the page, in the order in which the
\* server computed them; arrived: the answer that reached the page last
ServerStart == [history |-> <<>>, waiting |-> 1, answers |-> <<>>, arrived |-> Undefined]

Init ==
    /\ \E p0 \in PriceVals, c0 \in CashVals, s0 \in ShareVals :
          state = StoreConstructor(p0, c0, s0)
    /\ listeners = <<"render">>
    /\ delivered = <<>>
    /\ lastCall = [op |-> "bootstrap", keys |-> {}, resp |-> "none", threw |-> FALSE]
    /\ ui = UIConstructor
    /\ audio = AudioConstructor
    /\ cues = <<>>
    /\ timers = [poll |-> POLL_INTERVAL, overlay |-> <<>>]
    /\ inflight = 1
    /\ navigated = FALSE
    /\ out = [sent |-> <<"state">>, toasts |-> <<>>]
    /\ pending = <<>>
    /\ kept = KeptConstructor
    /\ server = ServerStart
    /\ task = <<>>

\* store.setState(newState), with every listener it calls
StoreSetState(newState, op, resp) ==
    \E snap \in {setState(state, newState)} :
    \E calls \in {notify(listeners, snap)} :
    \E r \in {IF \E i \in 1..Len(calls) : calls[i].listener = "render"
              THEN render(snap, ui, audio)
              ELSE [ui |-> ui, cues |-> <<>>, timeouts |-> <<>>, threw |-> FALSE]} :
       /\ state' = snap
       /\ delivered' = calls
       /\ ui' = r.ui
       /\ cues' = r.cues
       /\ timers' = [timers EXCEPT !.overlay = @ \o r.timeouts]
       /\ kept' = keep(kept, state, newState, calls)
       /\ out' = NoOut
       /\ lastCall' = [op |-> op, keys |-> DOMAIN newState, resp |-> resp, threw |-> r.threw]

----------------------------------------------------------------------------
(* The Store driven directly: setState with arbitrary partials of the      *)
(* numeric fields, and further subscribers                                 *)

Absent == 0 - 1

StoreKeyVals ==
    [ price : PriceVals \cup {Absent}, cash : CashVals \cup {Absent},
      shares : ShareVals \cup {Absent}, netWorth : WorthVals \cup {Absent},
      lastPrice : PriceVals \cup {Absent} ]

PartialOf(vals) == [k \in {f \in DOMAIN vals : vals[f] # Absent} |-> vals[k]]

\* the partials that name no derived field
SourceKeyVals == {vals \in StoreKeyVals : vals.netWorth = Absent /\ vals.lastPrice = Absent}

SetState(keyVals) ==
    /\ \E vals \in keyVals : StoreSetState(PartialOf(vals), "setState", "none")
    /\ UNCHANGED <<listeners, audio, inflight, navigated, pending, server, task>>

\* store.subscribe(listener)
Subscribe ==
    /\ Len(listeners) < MaxSubscribers
    /\ \E l \in Probes :
          /\ \A i \in 1..Len(listeners) : listeners[i] # l
          /\ listeners' = Append(listeners, l)
    /\ delivered' = <<>>
    /\ cues' = <<>>
    /\ lastCall' = [op |-> "subscribe", keys |-> {}, resp |-> "none", threw |-> FALSE]
    /\ out' = NoOut
    /\ UNCHANGED <<state, ui, audio, timers, inflight, navigated, pending, kept, server, task>>

NextStore == SetState(StoreKeyVals) \/ Subscribe

SpecStore == Init /\ [][NextStore]_vars

\* the Store driven by callers that never name netWorth or lastPrice
NextStoreSource == SetState(SourceKeyVals) \/ Subscribe

SpecStoreSource == Init /\ [][NextStoreSource]_vars

\* store.subscribe of a listener that keeps the object it is given
SubscribeKeeper ==
    /\ Len(listeners) < MaxSubscribers
    /\ \A i \in 1..Len(listeners) : listeners[i] # "keeper"
    /\ listeners' = Append(listeners, "keeper")
    /\ delivered' = <<>>
    /\ cues' = <<>>
    /\ lastCall' = [op |-> "subscribe", keys |-> {}, resp |-> "none", threw |-> FALSE]
    /\ out' = NoOut
    /\ UNCHANGED <<state, ui, audio, timers, inflight, navigated, pending, kept, server, task>>

\* the Store with a subscriber that keeps what it is given
NextStoreKeeper == SetState(SourceKeyVals) \/ SubscribeKeeper

SpecStoreKeeper == Init /\ [][NextStoreKeeper]_vars

----------------------------------------------------------------------------
(* The synchronization loop: pollState on the interval timer, the answers  *)
(* of the server, and the overlay timeouts of the game-over sequence       *)

\* well-formed parts of a room-state payload
\* a room that is live, one that has crashed, and one whose last round is over
Rooms ==
    { [current_price |-> p, round_number |-> 1, is_active |-> TRUE, crash_occurred |-> FALSE] :
        p \in PriceVals }
    \cup { [current_price |-> 1, round_number |-> 1, is_active |-> FALSE, crash_occurred |-> TRUE] }
    \cup { [current_price |-> MaxPrice, round_number |-> MAX_ROUNDS, is_active |-> FALSE,
            crash_occurred |-> FALSE] }
Players == {[cash |-> 1, shares |-> 1]}
SampleHistory == <<[round |-> 1, price |-> 1]>>
SampleChat == <<[time |-> "t1", player |-> "ann", message |-> "m1", is_system |-> FALSE]>>
SampleOrderBook ==
    [asks |-> <<[price |-> 2, vol |-> 1]>>, bids |-> <<[price |-> 1, vol |-> 1]>>]
SampleLeaderboard == <<[player_name |-> "ann", total_value |-> 1, is_current |-> TRUE]>>

PayloadFields == {"room", "player", "price_history", "chat", "order_book", "leaderboard"}

WellFormed ==
    { [ success |-> TRUE, error |-> "", room |-> Def(r), player |-> Def(pl),
        price_history |-> Def(SampleHistory), chat |-> Def(SampleChat),
        order_book |-> Def(SampleOrderBook), leaderboard |-> Def(SampleLeaderboard) ] :
      r \in Rooms, pl \in Players }

\* success is true and one of the six parts is missing
\* (of a live room at one price, of the crashed and of the completed room)
Malformed ==
    { [d EXCEPT ![f] = Undefined] :
        d \in {w \in WellFormed : w.room.v.current_price = 1 \/ ~w.room.v.is_active},
        f \in PayloadFields }

Refused ==
    { [ success |-> FALSE, error |-> e, room |-> Undefined, player |-> Undefined,
        price_history |-> Undefined, chat |-> Undefined,
        order_book |-> Undefined, leaderboard |-> Undefined ] :
      e \in {"Session expired", "Room not found"} }

Responses ==
    { [kind |-> k, data |-> CHOOSE d \in Refused : TRUE] : k \in {"network_error", "parse_error"} }
    \cup { [kind |-> "json", data |-> d] : d \in WellFormed \cup Malformed \cup Refused }

\* how the answer is named in lastCall
respClass(resp) ==
    IF resp.kind # "json" THEN resp.kind
    ELSE IF ~resp.data.success
         THEN (IF resp.data.error = "Session expired" THEN "expired" ELSE "refused")
    ELSE IF \E f \in PayloadFields : ~resp.data[f].def THEN "malformed"
    ELSE "ok"

\* the object literal pollState passes to store.setState
pollPartial(data) ==
    [ price |-> data.room.v.current_price,
      round |-> data.room.v.round_number,
      isActive |-> data.room.v.is_active,
      crashed |-> data.room.v.crash_occurred,
      cash |-> data.player.v.cash,
      shares |-> data.player.v.shares,
      history |-> data.price_history,
      chat |-> data.chat,
      orderBook |-> data.order_book,
      leaderboard |-> data.leaderboard ]

\* variant: every refusal of the server navigates away
pollPlanNavigateOnRefusal(resp) ==
    IF resp.kind # "json" THEN "catch"
    ELSE IF resp.data.success
         THEN (IF ~resp.data.room.def \/ ~resp.data.player.def THEN "catch" ELSE "setState")
    ELSE "navigate"

\* what the body of pollState does with an answer: "setState", "navigate",
\* "catch" (an exception reaches the catch block) or "nothing"
pollPlan(resp) ==
    IF resp.kind # "json" THEN "catch"             \* fetch or res.json() rejects
    ELSE IF resp.data.success
         THEN (IF ~resp.data.room.def \/ ~resp.data.player.def
               THEN "catch"                        \* TypeError building the literal
               ELSE "setState")
    ELSE IF resp.data.error = "Session expired" THEN "navigate"
    ELSE "nothing"

\* variant: the catch block marks the room inactive
catchBlockMarksInactive(st) == [st EXCEPT !.isActive = FALSE]

\* the catch block of pollState: console.error, the Store is not touched
catchBlock(st) == st

\* pollState up to its await: fetch of the room state. The model answers at
\* most MaxInflight requests at a time; a request issued beyond that is one
\* the server never answers.
fetchState(fl) == IF fl < MaxInflight THEN fl + 1 ELSE fl

\* variant: the tick is skipped while a request is pending
tickIssuesWhenIdle(fl) == fl = 0

\* the interval callback is pollState itself: it looks at no pending request
tickIssues(fl) == TRUE

\* the setInterval callback: pollState runs up to its await of fetch; what
\* becomes of the request at the server is left to the action that uses it
IntervalCallback ==
    /\ ~navigated
    /\ timers.poll = 0
    /\ tickIssues(inflight)
    /\ inflight' = fetchState(inflight)
    /\ timers' = [timers EXCEPT !.poll = POLL_INTERVAL]
    /\ delivered' = <<>>
    /\ cues' = <<>>
    /\ out' = [sent |-> <<"state">>, toasts |-> <<>>]
    /\ lastCall' = [op |-> "pollTick", keys |-> {}, resp |-> "none", threw |-> FALSE]
    /\ UNCHANGED <<state, listeners, ui, audio, navigated, pending, kept, task>>

\* the setInterval callback, the requests of the server not being followed
PollTick == IntervalCallback /\ UNCHANGED server

\* pollState resumes with the answer to its request
PollRespond(answers) ==
    /\ ~navigated
    /\ inflight > 0
    /\ inflight' = inflight - 1
    /\ \E resp \in answers :
         \/ /\ pollPlan(resp) = "setState"
            /\ StoreSetState(pollPartial(resp.data), "pollState", respClass(resp))
            /\ ui'.goScheduled <= MaxGameOvers
            /\ UNCHANGED <<listeners, audio, navigated, pending, server, task>>
         \/ /\ pollPlan(resp) = "catch"
            /\ state' = catchBlock(state)
            /\ delivered' = <<>>
            /\ cues' = <<>>
            /\ lastCall' = [op |-> "pollState", keys |-> {}, resp |-> respClass(resp),
                            threw |-> TRUE]
            /\ out' = NoOut
            /\ UNCHANGED <<listeners, ui, audio, timers, navigated, pending, kept, server, task>>
         \/ /\ pollPlan(resp) = "nothing"
            /\ delivered' = <<>>
            /\ cues' = <<>>
            /\ lastCall' = [op |-> "pollState", keys |-> {}, resp |-> respClass(resp),
                            threw |-> FALSE]
            /\ out' = NoOut
            /\ UNCHANGED <<state, listeners, ui, audio, timers, navigated, pending, kept, server, task>>
         \/ /\ pollPlan(resp) = "navigate"
            /\ navigated' = TRUE
            /\ delivered' = <<>>
            /\ cues' = <<>>
            /\ lastCall' = [op |-> "pollState", keys |-> {}, resp |-> respClass(resp),
                            threw |-> FALSE]
            /\ out' = NoOut
            /\ UNCHANGED <<state, listeners, ui, audio, timers, pending, kept, server, task>>

\* variant: classList.toggle('active')
classListToggle(active) == ~active

\* modal.classList.add('active')
classListAdd(active) == TRUE

\* the timeout set by triggerGameOver runs
OverlayTimeout ==
    /\ ~navigated
    /\ timers.overlay # <<>>
    /\ Head(timers.overlay) = 0
    /\ ui' = [ui EXCEPT !.modalActive = classListAdd(@)]
    /\ timers' = [timers EXCEPT !.overlay = Tail(@)]
    /\ delivered' = <<>>
    /\ cues' = <<>>
    /\ lastCall' = [op |-> "overlayTimeout", keys |-> {}, resp |-> "none", threw |-> FALSE]
    /\ out' = NoOut
    /\ UNCHANGED <<state, listeners, audio, inflight, navigated, pending, kept, server, task>>

\* TimeStep milliseconds pass; a timer that is due runs first
Advance ==
    /\ ~navigated
    /\ timers.poll > 0
    /\ \A i \in 1..Len(timers.overlay) : timers.overlay[i] > 0
    /\ timers' = [poll |-> timers.poll - TimeStep,
                  overlay |-> [i \in 1..Len(timers.overlay) |-> timers.overlay[i] - TimeStep]]
    /\ delivered' = <<>>
    /\ cues' = <<>>
    /\ lastCall' = [op |-> "advance", keys |-> {}, resp |-> "none", threw |-> FALSE]
    /\ out' = NoOut
    /\ UNCHANGED <<state, listeners, ui, audio, inflight, navigated, pending, kept, server, task>>

Next == PollTick \/ PollRespond(Responses) \/ OverlayTimeout \/ Advance

Spec == Init /\ [][Next]_vars

\* the loop with a server that never sends a malformed payload
NextWellFormed ==
    PollTick \/ PollRespond({r \in Responses : respClass(r) # "malformed"})
    \/ OverlayTimeout \/ Advance

SpecWellFormed == Init /\ [][NextWellFormed]_vars

\* every kind of answer, of a server whose room stays live
LoopAnswers == { r \in Responses : r.data.room.def => r.data.room.v.is_active }

NextLoop == PollTick \/ PollRespond(LoopAnswers) \/ Advance

\* the loop with its timer: the timer runs when it is due, and time passes;
\* nothing is supposed of the server
SpecFair ==
    Init /\ [][NextLoop]_vars /\ WF_vars(PollTick) /\ WF_vars(Advance)

----------------------------------------------------------------------------
(* The render pass driven through the Store with every kind of room *)

\* the room fields of a snapshot: rounds around maxRounds, active or not,
\* crashed or not
RoomPartials ==
    [ round : {MAX_ROUNDS - 1, MAX_ROUNDS, MAX_ROUNDS + 1},
      isActive : BOOLEAN, crashed : BOOLEAN ]

\* store.setState with the room fields
SetRoom ==
    /\ \E room \in RoomPartials : StoreSetState(room, "setState", "none")
    /\ ui'.goScheduled <= MaxGameOvers
    /\ UNCHANGED <<listeners, audio, inflight, navigated, pending, server, task>>

NextStatus == SetRoom \/ PollTick \/ OverlayTimeout \/ Advance

SpecStatus == Init /\ [][NextStatus]_vars

\* one side of an order book: up to two rows in any order, or more rows
\* than are shown, highest price first
BookSides ==
    LET row(p) == [price |-> p, vol |-> 1]
        P == 1..(MaxPrice + 1)
    IN {<<>>} \cup { <<row(p)>> : p \in P } \cup { <<row(p), row(q)>> : p \in P, q \in P }
       \cup { [i \in 1..(OB_ROWS + 1) |-> row(OB_ROWS + 2 - i)] }

\* store.setState with an order book
SetOrderBook ==
    /\ \E asks \in BookSides, bids \in BookSides :
          StoreSetState([orderBook |-> Def([asks |-> asks, bids |-> bids])], "setState", "none")
    /\ UNCHANGED <<listeners, audio, inflight, navigated, pending, server, task>>

NextBook == SetOrderBook

SpecBook == Init /\ [][NextBook]_vars

\* chats of up to two messages, a system message among them
ChatVals ==
    LET M == { [time |-> "t1", player |-> "ann", message |-> "m1", is_system |-> FALSE],
               [time |-> "t2", player |-> "bob", message |-> "m2", is_system |-> FALSE],
               [time |-> "t3", player |-> "", message |-> "n1", is_system |-> TRUE] }
    IN {<<>>} \cup { <<a>> : a \in M } \cup { <<a, b>> : a \in M, b \in M }

\* store.setState with a chat
SetChat ==
    /\ \E c \in ChatVals : StoreSetState([chat |-> Def(c)], "setState", "none")
    /\ UNCHANGED <<listeners, audio, inflight, navigated, pending, server, task>>

\* the user scrolls the chat list
ScrollChat ==
    /\ ui' = [ui EXCEPT !.chatScroll = "user"]
    /\ delivered' = <<>>
    /\ cues' = <<>>
    /\ out' = NoOut
    /\ lastCall' = [op |-> "scrollChat", keys |-> {}, resp |-> "none", threw |-> FALSE]
    /\ UNCHANGED <<state, listeners, audio, timers, inflight, navigated, pending, kept, server, task>>

NextChat == SetChat \/ ScrollChat

SpecChat == Init /\ [][NextChat]_vars

----------------------------------------------------------------------------
(* The audio engine on its own. The other sections name the cue methods    *)
(* they invoke (cues); what an invocation does inside the engine is here,  *)
(* with Cue standing for an invocation by any of the callers.              *)

CueNames == {"tick", "buy", "sell", "alert", "crash"}

\* variant: a tone is started whatever the flag says
playToneUngated(au) == 1

\* playTone, and the body of playCrash, return at once when the engine is
\* disabled; the number of oscillators started
playTone(au) == IF au.enabled THEN 1 ELSE 0

\* the cue methods: one burst now; playBuy, playSell and playAlert set a
\* timeout for a second one, whatever the flag says
playCue(au, cue) ==
    [au EXCEPT !.started = playTone(au),
               !.delayed = IF cue \in {"buy", "sell", "alert"}
                           THEN Append(@, [cue |-> cue, first |-> playTone(au)])
                           ELSE @]

\* variant: toggle switches the sound off
toggleMutes(au) == [audio |-> [au EXCEPT !.enabled = FALSE, !.started = 0], ret |-> FALSE]

\* AudioEngine.toggle(): the engine after the call and the value returned
toggle(au) == [audio |-> [au EXCEPT !.enabled = ~@, !.started = 0], ret |-> ~au.enabled]

\* a cue method is invoked
Cue ==
    /\ \E c \in CueNames :
          /\ c \in {"buy", "sell", "alert"} => Len(audio.delayed) < MaxDelayed
          /\ audio' = playCue(audio, c)
          /\ cues' = <<c>>
          /\ lastCall' = [op |-> "cue", keys |-> {}, resp |-> "none", threw |-> FALSE]
    /\ delivered' = <<>>
    /\ out' = NoOut
    /\ UNCHANGED <<state, listeners, ui, timers, inflight, navigated, pending, kept, server, task>>

\* the timeout of a second burst runs: playTone
Burst ==
    /\ \E i \in 1..Len(audio.delayed) :
          /\ audio' = [audio EXCEPT
                          !.started = playTone(audio),
                          !.delayed = SubSeq(@, 1, i - 1) \o SubSeq(@, i + 1, Len(@))]
          /\ lastCall' = [op |-> "burst", keys |-> {}, resp |-> "none", threw |-> FALSE,
                          first |-> audio.delayed[i].first]
    /\ delivered' = <<>>
    /\ cues' = <<>>
    /\ out' = NoOut
    /\ UNCHANGED <<state, listeners, ui, timers, inflight, navigated, pending, kept, server, task>>

\* window.toggleSound(): audio.toggle() and a toast that names what it returned
ToggleSound ==
    /\ \E t \in {toggle(audio)} :
          /\ audio' = t.audio
          /\ out' = [sent |-> <<>>,
                      toasts |-> <<IF t.ret THEN "Sound Enabled" ELSE "Sound Muted">>]
    /\ lastCall' = [op |-> "toggle", keys |-> {}, resp |-> "none", threw |-> FALSE,
                    before |-> audio.enabled]
    /\ delivered' = <<>>
    /\ cues' = <<>>
    /\ UNCHANGED <<state, listeners, ui, timers, inflight, navigated, pending, kept, server, task>>

NextAudio == Cue \/ Burst \/ ToggleSound

SpecAudio == Init /\ [][NextAudio]_vars

----------------------------------------------------------------------------
(* Trade and chat submission. The text of an input field is an input of    *)
(* the click that reads it, so the reset of the field after a success is   *)
(* not kept; a toast is recorded when it is shown (out.toasts), its        *)
(* removal four seconds later is not.                                      *)

\* the text of an amount field: an optional minus sign, decimal digits
\* (possibly none) and what is typed after them
\* "", "0", "1", "2", "02", ".5", "1.5" and "-1"
AmountTexts ==
    { [neg |-> FALSE, int |-> d, tail |-> ""] : d \in {<<>>, <<0>>, <<1>>, <<2>>, <<0, 2>>} }
    \cup { [neg |-> FALSE, int |-> d, tail |-> ".5"] : d \in {<<>>, <<1>>} }
    \cup { [neg |-> TRUE, int |-> <<1>>, tail |-> ""] }

RECURSIVE digitsValue(_)
digitsValue(d) == IF d = <<>> THEN 0 ELSE (10 * digitsValue(SubSeq(d, 1, Len(d) - 1))) + d[Len(d)]

\* parseInt(text): the integer its leading sign and digits spell, NaN
\* (Undefined) when no digit leads
parseInt(text) ==
    IF text.int = <<>> THEN Undefined
    ELSE Def(IF text.neg THEN 0 - digitsValue(text.int) ELSE digitsValue(text.int))

\* executeTrade(type) up to its fetch: the error toast it shows, or the
\* request it sends
executeTrade(st, type, text) ==
    LET amount == parseInt(text)
    IN IF ~amount.def \/ amount.v = 0 \/ amount.v <= 0     \* !amount || amount <= 0
       THEN [toast |-> "Invalid amount", request |-> Undefined]
       ELSE IF type = "buy" /\ amount.v * st.price > st.cash
       THEN [toast |-> "Insufficient funds", request |-> Undefined]
       ELSE IF type = "sell" /\ amount.v > st.shares
       THEN [toast |-> "Insufficient shares", request |-> Undefined]
       ELSE [toast |-> "none", request |-> Def([kind |-> type, shares |-> amount.v])]

\* the text of the chat field: a message, possibly empty, possibly with
\* blanks around it
ChatTexts == { [body |-> b, padded |-> pd] : b \in {"", "hi"}, pd \in BOOLEAN }

\* input.value.trim()
trim(text) == text.body

\* sendChat() up to its fetch
sendChat(text) ==
    IF trim(text) = "" THEN Undefined ELSE Def([kind |-> "chat", shares |-> 0])

\* the answers to a trade or chat request: the body the server sends, or a
\* rejected promise (no then-callback runs)
SubmitAnswers ==
    { [kind |-> "json", success |-> TRUE, error |-> ""],
      [kind |-> "json", success |-> FALSE, error |-> "Market closed"],
      [kind |-> "network_error", success |-> FALSE, error |-> ""] }

\* how the answer is named in lastCall
submitClass(ans) ==
    IF ans.kind # "json" THEN "rejected" ELSE IF ans.success THEN "success" ELSE "failure"

\* variant: the callback of a trade synchronizes on a failure as well
tradeCallbackAlwaysSyncs(kind, ans) ==
    IF ans.kind # "json" THEN [toast |-> "none", cues |-> <<>>, sent |-> <<>>]
    ELSE IF ans.success
    THEN [toast |-> "Order Executed", cues |-> <<kind>>, sent |-> <<"state">>]
    ELSE [toast |-> ans.error, cues |-> <<"alert">>, sent |-> <<"state">>]

\* the then-callback of executeTrade: toast, cue and forced pollState()
tradeCallback(kind, ans) ==
    IF ans.kind # "json" THEN [toast |-> "none", cues |-> <<>>, sent |-> <<>>]
    ELSE IF ans.success
    THEN [toast |-> "Order Executed", cues |-> <<kind>>, sent |-> <<"state">>]
    ELSE [toast |-> ans.error, cues |-> <<"alert">>, sent |-> <<>>]

\* the then-callback of sendChat
chatCallback(ans) ==
    IF ans.kind = "json" /\ ans.success
    THEN [toast |-> "none", cues |-> <<>>, sent |-> <<"state">>]
    ELSE [toast |-> "none", cues |-> <<>>, sent |-> <<>>]

toastsOf(t) == IF t = "none" THEN <<>> ELSE <<t>>

\* a click on the buy or the sell button
ExecuteTrade ==
    /\ ~navigated
    /\ \E type \in {"buy", "sell"}, text \in AmountTexts :
         \E t \in {executeTrade(state, type, text)} :
            /\ t.request.def => Len(pending) < MaxPending
            /\ pending' = IF t.request.def THEN Append(pending, t.request.v.kind) ELSE pending
            /\ out' = [sent |-> IF t.request.def THEN <<type>> ELSE <<>>,
                        toasts |-> toastsOf(t.toast)]
            /\ lastCall' = [op |-> "executeTrade", keys |-> {}, resp |-> "none",
                            threw |-> FALSE, type |-> type, text |-> text]
    /\ delivered' = <<>>
    /\ cues' = <<>>
    /\ UNCHANGED <<state, listeners, ui, audio, timers, inflight, navigated, kept, server, task>>

\* a click on the send button of the chat, or Enter in its field
SendChat ==
    /\ ~navigated
    /\ \E text \in ChatTexts :
         \E c \in {sendChat(text)} :
            /\ c.def => Len(pending) < MaxPending
            /\ pending' = IF c.def THEN Append(pending, "chat") ELSE pending
            /\ out' = [sent |-> IF c.def THEN <<"chat">> ELSE <<>>, toasts |-> <<>>]
            /\ lastCall' = [op |-> "sendChat", keys |-> {}, resp |-> "none",
                            threw |-> FALSE, type |-> "chat", text |-> text]
    /\ delivered' = <<>>
    /\ cues' = <<>>
    /\ UNCHANGED <<state, listeners, ui, audio, timers, inflight, navigated, kept, server, task>>

\* the answer to a trade or chat request arrives; the answers come in any
\* order; what becomes of a forced room-state request at the server is left
\* to the action that uses it
ThenCallback ==
    /\ ~navigated
    /\ \E i \in 1..Len(pending), ans \in SubmitAnswers :
         \E cb \in {IF pending[i] = "chat" THEN chatCallback(ans)
                     ELSE tradeCallback(pending[i], ans)} :
            /\ pending' = SubSeq(pending, 1, i - 1) \o SubSeq(pending, i + 1, Len(pending))
            /\ inflight' = IF cb.sent = <<>> THEN inflight ELSE fetchState(inflight)
            /\ out' = [sent |-> cb.sent, toasts |-> toastsOf(cb.toast)]
            /\ cues' = cb.cues
            /\ lastCall' = [op |-> "submitRespond", keys |-> {}, resp |-> submitClass(ans),
                            threw |-> FALSE, type |-> pending[i], text |-> ans.error]
    /\ delivered' = <<>>
    /\ UNCHANGED <<state, listeners, ui, audio, timers, navigated, kept, task>>

\* the answer to a trade or chat request arrives, the requests of the server
\* not being followed
SubmitRespond == ThenCallback /\ UNCHANGED server

\* the answers of a server whose room stays live
LiveAnswers ==
    { r \in Responses :
        /\ respClass(r) # "malformed"
        /\ respClass(r) = "ok" => r.data.room.v.is_active }

NextTrade ==
    ExecuteTrade \/ SendChat \/ SubmitRespond
    \/ PollTick \/ PollRespond(LiveAnswers) \/ Advance

SpecTrade == Init /\ [][NextTrade]_vars

----------------------------------------------------------------------------
(* Overlapping synchronization: every room-state request is followed to    *)
(* the server and back. The server plays rounds and only ever appends to   *)
(* its price history; it answers the requests it holds one at a time, and  *)
(* the answers reach the page in any order.                                *)

\* a request reaches the server if fetch has issued one the model follows
received(srv, issued) ==
    IF issued THEN [srv EXCEPT !.waiting = @ + 1] ELSE srv

\* answer i reaches the page: it is overtaken no more, and it overtakes the
\* answers computed before it that are still on their way
arrive(srv, i) ==
    [srv EXCEPT
       !.arrived = Def(srv.answers[i]),
       !.answers = [j \in 1..(i - 1) |-> [srv.answers[j] EXCEPT !.overtaken = TRUE]]
                   \o SubSeq(srv.answers, i + 1, Len(srv.answers))]

\* the body of the server's answer when its price history is h
answerOf(h) ==
    [ kind |-> "json",
      data |-> [ success |-> TRUE, error |-> "",
                 room |-> Def([current_price |-> 1, round_number |-> Len(h),
                               is_active |-> TRUE, crash_occurred |-> FALSE]),
                 player |-> Def(CHOOSE pl \in Players : TRUE),
                 price_history |-> Def(h), chat |-> Def(SampleChat),
                 order_book |-> Def(SampleOrderBook),
                 leaderboard |-> Def(SampleLeaderboard) ] ]

\* the setInterval callback; its request travels to the server
SyncTick == IntervalCallback /\ server' = received(server, inflight' > inflight)

\* the then-callback of a trade or a chat; the request of its pollState(),
\* if it calls it, travels to the server
SyncSubmit == ThenCallback /\ server' = received(server, inflight' > inflight)

\* the server plays a round: one more entry at the end of its price history
ServerRound ==
    /\ ~navigated
    /\ Len(server.history) < MaxHistory
    /\ server' = [server EXCEPT
                    !.history = Append(@, [round |-> Len(@) + 1, price |-> 1])]
    /\ delivered' = <<>>
    /\ cues' = <<>>
    /\ out' = NoOut
    /\ lastCall' = [op |-> "serverRound", keys |-> {}, resp |-> "none", threw |-> FALSE]
    /\ UNCHANGED <<state, listeners, ui, audio, timers, inflight, navigated, pending, kept, task>>

\* the server handles one of the requests it holds: the answer carries the
\* price history of that moment
ServerAnswer ==
    /\ ~navigated
    /\ server.waiting > 0
    /\ server' = [server EXCEPT
                    !.waiting = @ - 1,
                    !.answers = Append(@, [history |-> server.history, overtaken |-> FALSE])]
    /\ delivered' = <<>>
    /\ cues' = <<>>
    /\ out' = NoOut
    /\ lastCall' = [op |-> "serverAnswer", keys |-> {}, resp |-> "none", threw |-> FALSE]
    /\ UNCHANGED <<state, listeners, ui, audio, timers, inflight, navigated, pending, kept, task>>

\* pollState resumes with the answer to its request, whichever of the
\* answers on their way that is
SyncRespond ==
    /\ ~navigated
    /\ inflight > 0
    /\ inflight' = inflight - 1
    /\ \E i \in 1..Len(server.answers) :
          /\ \E resp \in {answerOf(server.answers[i].history)} :
                /\ pollPlan(resp) = "setState"
                /\ StoreSetState(pollPartial(resp.data), "pollState", respClass(resp))
          /\ server' = arrive(server, i)
    /\ UNCHANGED <<listeners, audio, navigated, pending, task>>

\* the forced syncs are those of chat messages; the then-callback of a trade
\* calls pollState() the same way
NextSync ==
    SyncTick \/ SendChat \/ SyncSubmit
    \/ ServerRound \/ ServerAnswer \/ SyncRespond \/ Advance

SpecSync == Init /\ [][NextSync]_vars

----------------------------------------------------------------------------
(* Store.setState statement by statement, under the event loop: a callback *)
(* (the continuation of pollState, the interval callback, a handler of the *)
(* chat, a then-callback) starts only when no call is running. task holds  *)
(* the calls of setState that have begun and not returned: newState, the   *)
(* statement to run next (pc), the listener to call next (i), and the      *)
(* snapshots the listeners of this call were given so far (seen).          *)

\* variant: notify awaits each listener, so the call is suspended before
\* each of them
suspendsInNotify(pc) == pc = "notify"

\* whether the call is suspended before the statement at pc: setState and
\* notify hold no await, and forEach calls the listeners synchronously
suspends(pc) == FALSE

\* no call is running: a callback may start
idle(t) == \A k \in 1..Len(t) : suspends(t[k].pc)

\* the answers of the server to a room-state request of a live room
OkAnswers ==
    { r \in Responses : respClass(r) = "ok" /\ r.data.room.v.is_active }

\* pollState resumes with an answer and calls store.setState
SetStateCall ==
    /\ ~navigated
    /\ idle(task)
    /\ inflight > 0
    /\ inflight' = inflight - 1
    /\ \E resp \in OkAnswers :
          /\ pollPlan(resp) = "setState"
          /\ task' = Append(task, [newState |-> pollPartial(resp.data), pc |-> "capture",
                                   i |-> 1, seen |-> <<>>])
          /\ lastCall' = [op |-> "setStateCall", keys |-> DOMAIN pollPartial(resp.data),
                          resp |-> respClass(resp), threw |-> FALSE]
    /\ delivered' = <<>>
    /\ cues' = <<>>
    /\ out' = NoOut
    /\ UNCHANGED <<state, listeners, ui, audio, timers, navigated, pending, kept, server>>

\* the next statement of a call of setState that is running, or of one that
\* is resumed while none is running
SetStateStep ==
    /\ ~navigated
    /\ \E k \in 1..Len(task) :
       LET a == task[k]
           rest == SubSeq(task, 1, k - 1) \o SubSeq(task, k + 1, Len(task))
           quiet == /\ delivered' = <<>>
                    /\ cues' = <<>>
                    /\ UNCHANGED <<ui, timers>>
       IN /\ \A j \in 1..Len(task) : j # k => suspends(task[j].pc)
          /\ \/ /\ a.pc = "capture"
                /\ state' = captureLastPrice(state, a.newState)
                /\ task' = [task EXCEPT ![k].pc = "merge"]
                /\ quiet
                /\ lastCall' = [op |-> "setStateStep", keys |-> DOMAIN a.newState,
                                resp |-> "none", threw |-> FALSE]
             \/ /\ a.pc = "merge"
                /\ state' = merge(state, a.newState)
                /\ task' = [task EXCEPT ![k].pc = "derive"]
                /\ quiet
                /\ lastCall' = [op |-> "setStateStep", keys |-> DOMAIN a.newState,
                                resp |-> "none", threw |-> FALSE]
             \/ /\ a.pc = "derive"
                /\ state' = deriveNetWorth(state, a.newState)
                /\ task' = [task EXCEPT ![k].pc = "notify"]
                /\ quiet
                /\ lastCall' = [op |-> "setStateStep", keys |-> DOMAIN a.newState,
                                resp |-> "none", threw |-> FALSE]
             \/ /\ a.pc = "notify"
                /\ a.i <= Len(listeners)
                /\ \E r \in {IF listeners[a.i] = "render" THEN render(state, ui, audio)
                             ELSE [ui |-> ui, cues |-> <<>>, timeouts |-> <<>>,
                                   threw |-> FALSE]} :
                      /\ ui' = r.ui
                      /\ cues' = r.cues
                      /\ timers' = [timers EXCEPT !.overlay = @ \o r.timeouts]
                      /\ task' = IF r.threw THEN rest
                                 ELSE [task EXCEPT ![k].i = @ + 1,
                                                   ![k].seen = Append(@, state)]
                      /\ lastCall' = [op |-> "setStateStep", keys |-> DOMAIN a.newState,
                                      resp |-> "none", threw |-> r.threw]
                /\ delivered' = <<[listener |-> listeners[a.i], snapshot |-> state]>>
                /\ UNCHANGED state
             \/ /\ a.pc = "notify"
                /\ a.i > Len(listeners)
                /\ task' = rest
                /\ quiet
                /\ lastCall' = [op |-> "setStateStep", keys |-> DOMAIN a.newState,
                                resp |-> "none", threw |-> FALSE]
                /\ UNCHANGED state
    /\ out' = NoOut
    /\ UNCHANGED <<listeners, audio, inflight, navigated, pending, kept, server>>

\* the callbacks of the page wait for the call that is running to return
TickWhenIdle == idle(task) /\ PollTick
SubscribeWhenIdle == idle(task) /\ Subscribe
SendChatWhenIdle == idle(task) /\ SendChat
SubmitRespondWhenIdle == idle(task) /\ SubmitRespond

NextAtomic ==
    SetStateCall \/ SetStateStep \/ TickWhenIdle \/ SubscribeWhenIdle
    \/ SendChatWhenIdle \/ SubmitRespondWhenIdle \/ Advance

SpecAtomic == Init /\ [][NextAtomic]_vars

----------------------------------------------------------------------------
(* Properties of the Store (checked under SpecStore) *)

Played(cue, sq) == \E i \in 1..Len(sq) : sq[i] = cue

Formula(s) == s.cash + (s.shares * s.price)

\* C1: in every reachable Store state netWorth equals cash + shares * price
C1_NetWorthFormula == state.netWorth = Formula(state)

\* C2: a setState whose partial includes a price leaves lastPrice equal to the
\* price held before the call; any other setState leaves lastPrice as it was
C2_LastPriceCapture ==
    [][lastCall'.op = "setState" =>
         IF "price" \in lastCall'.keys
         THEN state'.lastPrice = state.price
         ELSE state'.lastPrice = state.lastPrice]_vars

\* C3: setState with an empty partial leaves every field of the snapshot,
\* the derived fields included, as it was
C3_EmptyPartialNoChange ==
    [][(lastCall'.op = "setState" /\ lastCall'.keys = {}) => state' = state]_vars

\* an empty partial was applied to a snapshot whose derived fields do not
\* equal what a recomputation would give
C3_Witness ==
    /\ lastCall.op = "setState"
    /\ lastCall.keys = {}
    /\ state.lastPrice # state.price
    /\ state.netWorth # Formula(state)

C5_TickIffPriceChanged ==
    [][lastCall'.op = "setState" =>
         (Played("tick", cues') <=> state'.price # state.price)]_vars

\* C20: no field of a snapshot object that was passed to a subscriber is
\* changed by a later setState call
C20_SnapshotImmutable ==
    kept.prior.def => kept.prior.v.now = kept.prior.v.asGiven

----------------------------------------------------------------------------
(* Properties of the synchronization loop and the game-over sequence       *)
(* (checked under Spec)                                                    *)

\* C6: in a session the game-over tone is played at most once and the
\* overlay activation is scheduled at most once
C6_GameOverOnce == ui.goTones <= 1 /\ ui.goScheduled <= 1

\* C7: once the overlay is shown it stays shown, so it goes from not shown
\* to shown at most once
C7_OverlayShownOnce == [][ui.modalActive => ui'.modalActive]_vars

\* a second overlay timeout has run on the overlay that was already shown
C7_Witness ==
    /\ lastCall.op = "overlayTimeout"
    /\ ui.modalActive
    /\ ui.goScheduled >= 2
    /\ timers.overlay = <<>>

\* C8: with the overlay shown, an update with crashed true plays no crash
\* tone, schedules no overlay activation and leaves title and score alone
C8_NoRetriggerWhenShown ==
    [][(ui.modalActive /\ lastCall'.op = "pollState" /\ delivered' # <<>> /\ state'.crashed) =>
         /\ ~Played("crash", cues')
         /\ ui'.goTones = ui.goTones
         /\ ui'.goScheduled = ui.goScheduled
         /\ timers'.overlay = timers.overlay
         /\ ui'.goTitle = ui.goTitle
         /\ ui'.goScore = ui.goScore]_vars

\* an update with crashed true was rendered to its end with the overlay
\* shown, and neither the title nor the score on the overlay is the one
\* triggerGameOver would write for it
C8_Witness ==
    /\ lastCall.op = "pollState"
    /\ lastCall.resp = "ok"
    /\ state.crashed
    /\ ui.modalActive
    /\ ui.goTitle = "SESSION CLOSED"
    /\ ui.goScore # state.netWorth

\* C9: a request that fails with a network error or an unparsable body
\* leaves the snapshot as it was and notifies no subscriber
C9_FailedRequestNoChange ==
    [][(lastCall'.op = "pollState" /\ lastCall'.resp \in {"network_error", "parse_error"}) =>
         (state' = state /\ delivered' = <<>>)]_vars

\* a request failed after an earlier one had updated the Store
C9_Witness ==
    /\ lastCall.op = "pollState"
    /\ lastCall.resp \in {"network_error", "parse_error"}
    /\ lastCall.threw
    /\ state.round # 0

\* C10: a malformed answer (success true, one of the six parts missing)
\* leaves the snapshot as it was
C10_MalformedNoChange ==
    [][(lastCall'.op = "pollState" /\ lastCall'.resp = "malformed") => state' = state]_vars

\* C11: an answer with success false and error 'Session expired' navigates
\* away and leaves the Store alone; no other answer navigates
C11_NavigateOnlyOnExpiry ==
    [][lastCall'.op = "pollState" =>
         /\ navigated' <=> lastCall'.resp = "expired"
         /\ lastCall'.resp = "expired" => (state' = state /\ delivered' = <<>>)]_vars

\* the session expired after an earlier answer had updated the Store
C11_Witness ==
    /\ navigated
    /\ lastCall.op = "pollState"
    /\ lastCall.resp = "expired"
    /\ state.round # 0

\* C12: one request is issued at startup, and whenever the interval timer is
\* due a new request is issued, whatever the earlier answers were and
\* whether or not a request is still in flight, for as long as the page
\* lives; there is no last attempt
C12_LoopSelfHealing ==
    /\ out.sent = <<"state">> /\ inflight = 1
    /\ (timers.poll = 0 /\ ~navigated) ~> (navigated \/ lastCall.op = "pollTick")
    /\ []<>(navigated \/ lastCall.op = "pollTick")

\* a tick issued a request with the model's limit of requests in flight,
\* after a malformed answer
C12_Witness ==
    /\ lastCall.op = "pollTick"
    /\ out.sent = <<"state">>
    /\ inflight = MaxInflight
    /\ ~state.history.def

----------------------------------------------------------------------------
(* Properties of trade and chat submission (checked under SpecTrade) *)

\* C13: executeTrade sends a trade request only if the entered amount is a
\* positive integer and a buy costs at most the cash, a sell is of at most the
\* shares, of the current snapshot; in every other case it shows an error
\* toast, sends nothing and leaves the Store as it was
C13_TradePreCheck ==
    [][lastCall'.op = "executeTrade" =>
         LET text == lastCall'.text
             type == lastCall'.type
             entered == digitsValue(text.int)
             positiveInteger == ~text.neg /\ text.tail = "" /\ text.int # <<>> /\ entered > 0
             passes == /\ positiveInteger
                       /\ type = "buy" => entered * state.price <= state.cash
                       /\ type = "sell" => entered <= state.shares
         IN ~passes => (out'.sent = <<>> /\ out'.toasts # <<>> /\ state' = state)]_vars

\* C14: the answer to a trade or chat submission issues exactly one
\* room-state request when it reports success and none when it reports a
\* failure; a submission rejected locally issues none; a trade the server
\* refuses plays the alert cue and not the buy or sell cue
C14_ForcedSyncOnSuccess ==
    [][/\ lastCall'.op = "submitRespond" =>
            /\ out'.sent = (IF lastCall'.resp = "success" THEN <<"state">> ELSE <<>>)
            /\ (lastCall'.resp = "success" /\ inflight < MaxInflight) => inflight' = inflight + 1
            /\ lastCall'.resp # "success" => inflight' = inflight
            /\ (lastCall'.resp = "failure" /\ lastCall'.type # "chat") => cues' = <<"alert">>
            /\ (lastCall'.resp = "success" /\ lastCall'.type # "chat") => cues' = <<lastCall'.type>>
       /\ lastCall'.op \in {"executeTrade", "sendChat"} =>
            /\ ~Played("state", out'.sent)
            /\ inflight' = inflight
            /\ pending' = pending => out'.sent = <<>>]_vars

\* a successful trade has forced a synchronization while the request of a
\* tick was in flight, and a chat request is still pending
C14_Witness ==
    /\ lastCall.op = "submitRespond"
    /\ lastCall.resp = "success"
    /\ lastCall.type \in {"buy", "sell"}
    /\ out.sent = <<"state">>
    /\ inflight = 2
    /\ pending = <<"chat">>
    /\ state.round # 0

----------------------------------------------------------------------------
(* Properties of the render pass *)

C16_SpreadOfDisplayedRows ==
    [][(lastCall'.op = "setState" /\ "orderBook" \in lastCall'.keys
          /\ state'.orderBook.v.asks # <<>> /\ state'.orderBook.v.bids # <<>>) =>
         LET lowestAsk == Min({ui'.obAsks[i].price : i \in 1..Len(ui'.obAsks)})
             highestBid == Max({ui'.obBids[i].price : i \in 1..Len(ui'.obBids)})
         IN /\ Len(ui'.obAsks) <= OB_ROWS
            /\ Len(ui'.obBids) <= OB_ROWS
            /\ ui'.spread = Def([ spread |-> toFixed2(lowestAsk - highestBid, 1),
                                  pct |-> toFixed2((lowestAsk - highestBid) * 100, highestBid) ])]_vars

----------------------------------------------------------------------------
(* Properties of the audio engine (checked under SpecAudio) *)

\* C18: while the engine is disabled no cue starts a tone burst, and neither
\* does the delayed second burst of a cue whose first burst was started
\* before the engine was muted
C18_MuteGatesAllBursts ==
    (lastCall.op \in {"cue", "burst"} /\ ~audio.enabled) => audio.started = 0

\* the second burst of a cue came due with the engine muted, after the
\* first burst of that cue had sounded
C18_Witness ==
    /\ lastCall.op = "burst"
    /\ lastCall.first = 1
    /\ ~audio.enabled
    /\ audio.started = 0

\* C19: the value toggle returns is the enabled flag after the call, and a
\* toggle that follows a toggle leaves the engine in the state the first
\* one left
C19_ToggleIdempotent ==
    [][lastCall'.op = "toggle" =>
         /\ Played("Sound Enabled", out'.toasts) <=> audio'.enabled
         /\ lastCall.op = "toggle" => audio' = audio]_vars

\* C19 as amended: the value toggle returns is the enabled flag after the
\* call; toggle inverts the flag and nothing else, so a toggle that follows
\* a toggle leaves the engine in the state it had before the first
C19_ToggleInverts ==
    [][lastCall'.op = "toggle" =>
         /\ Played("Sound Enabled", out'.toasts) <=> audio'.enabled
         /\ audio'.enabled = ~audio.enabled
         /\ audio'.delayed = audio.delayed
         /\ lastCall.op = "toggle" => audio'.enabled = lastCall.before]_vars

\* two toggles in a row, with a second burst pending
C19_Witness ==
    /\ lastCall.op = "toggle"
    /\ lastCall.before = FALSE
    /\ audio.enabled
    /\ audio.delayed # <<>>
    /\ out.toasts = <<"Sound Enabled">>

----------------------------------------------------------------------------
(* Properties of overlapping synchronization *)

\* C21: with a server whose price history is append-only, and room-state
\* requests of ticks and of forced syncs that overlap and complete in any
\* order, the length of the Store's history never decreases from one update
\* to the next
C21_HistoryNeverShrinks ==
    [][(state.history.def /\ state'.history.def) =>
          Len(state'.history.v) >= Len(state.history.v)]_vars

\* C21 as amended: every answer that arrives replaces the Store's history by
\* the one it carries (the last to arrive wins), and the length of the
\* Store's history does not decrease on the arrival of an answer that no
\* answer computed after it has overtaken
C21_LastArrivalWins ==
    [][lastCall'.op = "pollState" =>
          /\ state'.history = Def(server'.arrived.v.history)
          /\ ~server'.arrived.v.overtaken =>
                Len(state'.history.v) >= Len(state.history.v)]_vars

\* two requests overlapped, the answer computed second arrived first and
\* lengthened the history, and the answer it overtook is still on its way
C21_Witness ==
    /\ lastCall.op = "pollState"
    /\ ~server.arrived.v.overtaken
    /\ Len(state.history.v) > 0
    /\ state.history.v = server.arrived.v.history
    /\ \E i \in 1..Len(server.answers) :
          /\ server.answers[i].overtaken
          /\ Len(server.answers[i].history) < Len(state.history.v)

\* C22: Store updates are atomic with respect to each other: for any
\* interleaving of overlapping room-state requests, timer ticks and chat or
\* trade callbacks, at most one call of setState is in progress; until it
\* has merged, derived and notified every subscriber no other callback
\* runs; and every snapshot its subscribers were given is the state the
\* Store holds, so none of them observes the snapshot of a second update
\* between two notifications of the first
C22_UpdatesAtomic ==
    /\ [](/\ Len(task) <= 1
          /\ \A k \in 1..Len(task) : \A n \in 1..Len(task[k].seen) :
                task[k].seen[n] = state)
    /\ [][task # <<>> => lastCall'.op \in {"setStateStep", "advance"}]_vars

\* a call of setState has notified the first of several subscribers and not
\* yet the second, while another room-state request is in flight, the
\* interval timer is due and a chat message awaits its answer
C22_Witness ==
    /\ Len(task) = 1
    /\ task[1].pc = "notify"
    /\ task[1].i = 2
    /\ Len(task[1].seen) = 1
    /\ Len(listeners) >= 2
    /\ inflight >= 1
    /\ timers.poll = 0
    /\ pending # <<>>

\* C23: after every render of an order book whose ask side or bid side is
\* empty the spread display shows no numeric spread, also when an earlier
\* update with both sides non-empty had displayed one
C23_NoSpreadWhenSideEmpty ==
    [][(lastCall'.op = "setState" /\ "orderBook" \in lastCall'.keys /\ ~lastCall'.threw
          /\ (state'.orderBook.v.asks = <<>> \/ state'.orderBook.v.bids = <<>>)) =>
         ~ui'.spread.def]_vars

====
